---- MODULE Spec2Model ----
(***************************************************************************)
(* Video ingestion of world-social-backend: VideoService.uploadVideo,      *)
(* VideoService.deleteVideo (src/src/services/videoService.js) and the     *)
(* DELETE /:videoId route, over the object store, the metadata store       *)
(* (prisma.video), the Redis cache and the files of os.tmpdir().           *)
(*                                                                         *)
(* Every await of the code is one step of a worker; an outcome of an       *)
(* external service (storage, prisma, redis, ffmpeg) is an input of the    *)
(* step. Durations are in tenths of a second (ffprobe reports fractions).  *)
(***************************************************************************)
EXTENDS Integers, Sequences, FiniteSets, TLC

\* ---------------------------------------------------------------- bounds
MaxCalls == 1

Procs == {"w1", "w2"}
Users == {"u1", "u2"}
\* requests served one at a time do not depend on who uploads, only on
\* whether the requester of a delete is the owner
Uploader == "u1"
Durations == {100, 296, 300, 450}

\* ------------------------------------------------------------- constants
Null == <<>>
NoError == "none"
NoUser == "nobody"
MaxDuration == 30
BucketName == "socialworldworldcoin"
BaseUrl == <<"https", "socialworldworldcoin.s3.us-east-2.amazonaws.com">>

\* ------------------------------------------------------------ pure parts
\* Math.round of a non-negative duration given in tenths of a second
MathRound(d) == (d + 5) \div 10

Min(a, b) == IF a < b THEN a ELSE b

NeedsTrim_Inclusive(d) == d >= MaxDuration * 10

\* duration > 30, the trim condition
NeedsTrim(d) == d > MaxDuration * 10

PersistedDuration_NoClamp(d) == MathRound(d)

\* Math.min(Math.round(duration), 30), the persisted duration
PersistedDuration(d) == Min(MathRound(d), MaxDuration)

\* contentId = `${userId}-${timestamp}`
ContentId(u, t) == <<u, t>>

\* redisKey = `video:${contentId}`
RedisKey(id) == <<"video", id>>

\* fileName = `${contentId}/${safeFileName}`
FileName(id) == <<id, <<"", "clip.mp4">> >>

\* finalFileName = `${contentId}/trimmed-${safeFileName}`
TrimmedFileName(id) == <<id, <<"trimmed-", "clip.mp4">> >>

\* thumbnailName = `${contentId}/${base}-thumb.jpg`
ThumbnailName(id) == <<id, <<"", "clip-thumb.jpg">> >>

\* outputPath = tmpdir/trimmed-${timestamp}.mp4
OutputPath(t) == <<"trimmed", t>>

\* thumbnailPath = tmpdir/thumb-${timestamp}.jpg
ThumbnailPath(t) == <<"thumb", t>>

\* file.path given by multer: tmpdir/${Date.now()}${ext}
SpoolPath(t) == <<"spool", t>>

\* getFullUrl: `${baseUrl}/${objectKey}`, a URL is the sequence of its segments
GetFullUrl(key) == <<BaseUrl>> \o key

IsBucketSegment(seg) == Len(seg) = 1 /\ seg[1] = BucketName

RECURSIVE RemoveFirstBucket(_)
RemoveFirstBucket(path) ==
    IF path = <<>> THEN <<>>
    ELSE IF IsBucketSegment(Head(path)) THEN Tail(path)
    ELSE <<Head(path)>> \o RemoveFirstBucket(Tail(path))

\* extractFilePath: drop protocol and host, then the first `${bucketName}/`
ExtractFilePath(url) == RemoveFirstBucket(Tail(url))

\* ---------------------------------------------------------------- state
VARIABLES
    pc,        \* position of each worker in the call it runs
    loc,       \* the locals of the call each worker runs
    now,       \* Date.now()
    calls,     \* number of uploadVideo calls started so far
    objects,   \* object store: set of [key, by]; by = the call that wrote it
    rows,      \* prisma.video: set of rows
    cache,     \* redis: set of [key, value]
    tmp,       \* files of os.tmpdir(): set of [name, empty]
    inflight,  \* deleteFile requests of a rollback not yet answered
    quota,     \* number of uploadVideo calls the scenario admits
    deleted,   \* ids for which deleteVideo has returned successfully
    bucket     \* the container: [exists, made]; made counts the creations

vars == <<pc, loc, now, calls, objects, rows, cache, tmp, inflight, quota, deleted, bucket>>

\* ------------------------------------------------------- store operators
HasObject(objs, k) == \E o \in objs : o.key = k
PutObject(objs, k, c) == {o \in objs : o.key # k} \cup {[key |-> k, by |-> c]}
RemoveObject(objs, k) == {o \in objs : o.key # k}

HasRow(rs, id) == \E r \in rs : r.id = id
RowOf(rs, id) == CHOOSE r \in rs : r.id = id
DeleteRow(rs, id) == {r \in rs : r.id # id}

HasCache(ch, k) == \E e \in ch : e.key = k
SetCache(ch, k, v) == {e \in ch : e.key # k} \cup {[key |-> k, value |-> v]}
DelCache(ch, k) == {e \in ch : e.key # k}

FileExists(t, name) == \E f \in t : f.name = name
FileEmpty(t, name) == \E f \in t : f.name = name /\ f.empty
WriteFile(t, name, isEmpty) ==
    {f \in t : f.name # name} \cup {[name |-> name, empty |-> isEmpty]}
Unlink(t, name) == {f \in t : f.name # name}

\* the try block of the temp cleanup: the first unlink of a missing file
\* throws and skips the rest
RECURSIVE UnlinkEach(_, _)
UnlinkEach(t, names) ==
    IF names = <<>> THEN t
    ELSE IF ~FileExists(t, Head(names)) THEN t
    ELSE UnlinkEach(Unlink(t, Head(names)), Tail(names))

SeqToSet(s) == {s[i] : i \in 1..Len(s)}

\* ------------------------------------------------------------- the calls
NoLocals ==
    [op |-> "none", call |-> 0, userId |-> NoUser, filePath |-> Null,
     timestamp |-> 0, contentId |-> Null, redisKey |-> Null,
     duration |-> 0, finalVideoPath |-> Null, finalFileName |-> Null,
     thumbnailName |-> Null, uploadedFiles |-> <<>>, createdVideo |-> Null,
     error |-> NoError, del |-> {}, comp |-> <<>>, result |-> Null,
     videoId |-> Null, video |-> Null, failedStages |-> {}, hit |-> FALSE]

\* Spec serves one request at a time: worker w1 runs the calls one after
\* the other, w2 takes no request.
Init ==
    /\ pc = [p \in Procs |-> IF p = "w1" THEN "idle" ELSE "off"]
    /\ loc = [p \in Procs |-> NoLocals]
    /\ now = 0
    /\ calls = 0
    /\ objects = {}
    /\ rows = {}
    /\ cache = {}
    /\ tmp = {}
    /\ inflight = {}
    /\ quota = MaxCalls
    /\ deleted = {}
    /\ bucket = [exists |-> TRUE, made |-> 0]

\* the message of the error a stage throws
StageError(stage) ==
    CASE stage = "validate" -> "Invalid file"
      [] stage = "probe" -> "Failed to process video"
      [] stage = "trim" -> "Failed to process trimmed video"
      [] stage = "upload" -> "Failed to upload video"
      [] stage = "create" -> "Failed to create video record"
      [] OTHER -> stage

\* the catch block of uploadVideo is entered with `error`; failedStages
\* records which stages failed in this call
Catch(p, stage) ==
    /\ pc' = [pc EXCEPT ![p] = "rollback"]
    /\ loc' = [loc EXCEPT ![p].error = StageError(stage),
                          ![p].failedStages = @ \cup {stage}]

\* The route hands the spooled file to uploadVideo(file, userId); multer
\* has written file.path unless the file is missing or empty.
StartUpload(p, u, f) ==
    /\ pc[p] = "idle"
    /\ calls < quota
    /\ calls' = calls + 1
    /\ pc' = [pc EXCEPT ![p] = "init"]
    /\ loc' = [loc EXCEPT ![p] = [NoLocals EXCEPT !.op = "upload",
                  !.call = calls + 1, !.userId = u, !.filePath = SpoolPath(now)]]
    /\ tmp' = IF f = "missing" THEN Unlink(tmp, SpoolPath(now))
              ELSE WriteFile(tmp, SpoolPath(now), f = "empty")
    /\ UNCHANGED <<now, objects, rows, cache, inflight, quota, deleted, bucket>>

\* await this.initialize(), then timestamp, contentId and redisKey
Initialize(p, ok) ==
    /\ pc[p] = "init"
    /\ IF ok
       THEN /\ pc' = [pc EXCEPT ![p] = "validate"]
            /\ loc' = [loc EXCEPT ![p].timestamp = now,
                                  ![p].contentId = ContentId(loc[p].userId, now),
                                  ![p].redisKey = RedisKey(ContentId(loc[p].userId, now))]
       ELSE Catch(p, "initialize")
    /\ UNCHANGED <<now, calls, objects, rows, cache, tmp, inflight, quota, deleted, bucket>>

\* fs.access / fs.stat of the spooled file
Validate(p) ==
    /\ pc[p] = "validate"
    /\ IF FileExists(tmp, loc[p].filePath) /\ ~FileEmpty(tmp, loc[p].filePath)
       THEN /\ pc' = [pc EXCEPT ![p] = "probe"]
            /\ loc' = loc
       ELSE Catch(p, "validate")
    /\ UNCHANGED <<now, calls, objects, rows, cache, tmp, inflight, quota, deleted, bucket>>

\* ffmpeg.ffprobe; running the external tool takes more than a millisecond
Probe(p, ok, d) ==
    /\ pc[p] = "probe"
    /\ now' = now + 1
    /\ IF ok
       THEN /\ pc' = [pc EXCEPT ![p] = IF NeedsTrim(d) THEN "trim" ELSE "thumbnail"]
            /\ loc' = [loc EXCEPT ![p].duration = d,
                                  ![p].finalVideoPath = loc[p].filePath,
                                  ![p].finalFileName = FileName(loc[p].contentId)]
       ELSE Catch(p, "probe")
    /\ UNCHANGED <<calls, objects, rows, cache, tmp, inflight, quota, deleted, bucket>>

Trim_FallbackToOriginal(p, outcome) ==
    /\ pc[p] = "trim"
    /\ tmp' = IF outcome = "ok"
              THEN WriteFile(tmp, OutputPath(loc[p].timestamp), FALSE) ELSE tmp
    /\ pc' = [pc EXCEPT ![p] = "thumbnail"]
    /\ loc' = IF outcome = "ok"
              THEN [loc EXCEPT ![p].finalVideoPath = OutputPath(loc[p].timestamp),
                               ![p].finalFileName = TrimmedFileName(loc[p].contentId)]
              ELSE [loc EXCEPT ![p].failedStages = @ \cup {"trim"}]
    /\ UNCHANGED <<now, calls, objects, rows, cache, inflight, quota, deleted, bucket>>

Trim_UploadsOriginal(p, outcome) ==
    /\ pc[p] = "trim"
    /\ tmp' = IF outcome = "ok"
              THEN WriteFile(tmp, OutputPath(loc[p].timestamp), FALSE) ELSE tmp
    /\ IF outcome = "ok"
       THEN /\ pc' = [pc EXCEPT ![p] = "thumbnail"]
            /\ loc' = loc
       ELSE Catch(p, "trim")
    /\ UNCHANGED <<now, calls, objects, rows, cache, inflight, quota, deleted, bucket>>

\* ffmpeg(filePath).setDuration(30)...run(), then the check of the output
Trim(p, outcome) ==
    /\ pc[p] = "trim"
    /\ tmp' = CASE outcome = "ok" -> WriteFile(tmp, OutputPath(loc[p].timestamp), FALSE)
                [] outcome = "empty" -> WriteFile(tmp, OutputPath(loc[p].timestamp), TRUE)
                [] OTHER -> tmp
    /\ IF outcome = "ok"
       THEN /\ pc' = [pc EXCEPT ![p] = "thumbnail"]
            /\ loc' = [loc EXCEPT ![p].finalVideoPath = OutputPath(loc[p].timestamp),
                                  ![p].finalFileName = TrimmedFileName(loc[p].contentId)]
       ELSE Catch(p, "trim")
    /\ UNCHANGED <<now, calls, objects, rows, cache, inflight, quota, deleted, bucket>>

AfterThumbnailFailure_Fatal(l) == "rollback"

\* catch of the thumbnail block: logger.warn, "Continue without thumbnail"
AfterThumbnailFailure(l) == "upload"

\* ffmpeg(finalVideoPath).screenshots(...): a failure is logged only
Thumbnail(p, ok) ==
    /\ pc[p] = "thumbnail"
    /\ tmp' = IF ok /\ FileExists(tmp, loc[p].finalVideoPath)
              THEN WriteFile(tmp, ThumbnailPath(loc[p].timestamp), FALSE)
              ELSE tmp
    /\ pc' = [pc EXCEPT ![p] = IF ok /\ FileExists(tmp, loc[p].finalVideoPath)
                               THEN "thumbnailUpload"
                               ELSE AfterThumbnailFailure(loc[p])]
    /\ loc' = [loc EXCEPT ![p].thumbnailName = ThumbnailName(loc[p].contentId),
                          ![p].failedStages =
                              IF ok /\ FileExists(tmp, loc[p].finalVideoPath)
                              THEN @ ELSE @ \cup {"thumbnail"}]
    /\ UNCHANGED <<now, calls, objects, rows, cache, inflight, quota, deleted, bucket>>

\* fs.readFile(thumbnailPath) and storageClient.uploadFile of the thumbnail
ThumbnailUpload(p, ok) ==
    /\ pc[p] = "thumbnailUpload"
    /\ pc' = [pc EXCEPT ![p] =
                IF ok /\ FileExists(tmp, ThumbnailPath(loc[p].timestamp))
                THEN "upload" ELSE AfterThumbnailFailure(loc[p])]
    /\ IF ok /\ FileExists(tmp, ThumbnailPath(loc[p].timestamp))
       THEN /\ objects' = PutObject(objects, loc[p].thumbnailName, loc[p].call)
            /\ loc' = [loc EXCEPT ![p].uploadedFiles = Append(@, loc[p].thumbnailName)]
       ELSE /\ objects' = objects
            /\ loc' = [loc EXCEPT ![p].failedStages = @ \cup {"thumbnail"}]
    /\ UNCHANGED <<now, calls, rows, cache, tmp, inflight, quota, deleted, bucket>>

\* fs.readFile(finalVideoPath) and storageClient.uploadFile of the video
Upload(p, ok) ==
    /\ pc[p] = "upload"
    /\ IF ok /\ FileExists(tmp, loc[p].finalVideoPath)
       THEN /\ objects' = PutObject(objects, loc[p].finalFileName, loc[p].call)
            /\ loc' = [loc EXCEPT ![p].uploadedFiles = Append(@, loc[p].finalFileName)]
            /\ pc' = [pc EXCEPT ![p] = "create"]
       ELSE /\ Catch(p, "upload")
            /\ UNCHANGED objects
    /\ UNCHANGED <<now, calls, rows, cache, tmp, inflight, quota, deleted, bucket>>

\* the row given to prisma.video.create
NewRow(l) ==
    [id |-> l.contentId, userId |-> l.userId, thumbnailUrl |-> l.thumbnailName,
     duration |-> PersistedDuration(l.duration),
     url |-> GetFullUrl(l.finalFileName), by |-> l.call]

\* prisma.video.create; the id is the primary key of the table
Create(p, ok) ==
    /\ pc[p] = "create"
    /\ IF ok /\ ~HasRow(rows, loc[p].contentId)
       THEN /\ rows' = rows \cup {NewRow(loc[p])}
            /\ loc' = [loc EXCEPT ![p].createdVideo = NewRow(loc[p])]
            /\ pc' = [pc EXCEPT ![p] = "cache"]
       ELSE /\ Catch(p, "create")
            /\ UNCHANGED rows
    /\ UNCHANGED <<now, calls, objects, cache, tmp, inflight, quota, deleted, bucket>>

VideoMetadata_RawPreviewKey(row) ==
    [id |-> row.id, videoUrl |-> row.url, thumbnailUrl |-> row.thumbnailUrl,
     userId |-> row.userId, duration |-> row.duration]

\* videoMetadata, built from the created row
VideoMetadata(row) ==
    [id |-> row.id, videoUrl |-> row.url,
     thumbnailUrl |-> IF row.thumbnailUrl # Null
                      THEN GetFullUrl(row.thumbnailUrl) ELSE Null,
     userId |-> row.userId, duration |-> row.duration]

\* await redisClient.set(redisKey, JSON.stringify(videoMetadata), ...)
CacheSet(p, ok) ==
    /\ pc[p] = "cache"
    /\ IF ok
       THEN /\ cache' = SetCache(cache, loc[p].redisKey, VideoMetadata(loc[p].createdVideo))
            /\ pc' = [pc EXCEPT ![p] = "cleanup"]
            /\ loc' = loc
       ELSE /\ Catch(p, "cache")
            /\ UNCHANGED cache
    /\ UNCHANGED <<now, calls, objects, rows, tmp, inflight, quota, deleted, bucket>>

\* the files the success path unlinks, in the order of the code
CleanupList(l) ==
    (IF l.finalVideoPath # l.filePath THEN <<l.finalVideoPath>> ELSE <<>>)
        \o <<l.filePath, ThumbnailPath(l.timestamp)>>

\* temp cleanup of the success path, then return videoMetadata
CleanupAndReturn(p) ==
    /\ pc[p] = "cleanup"
    /\ tmp' = UnlinkEach(tmp, CleanupList(loc[p]))
    /\ loc' = [loc EXCEPT ![p].result = VideoMetadata(loc[p].createdVideo)]
    /\ pc' = [pc EXCEPT ![p] = "done"]
    /\ UNCHANGED <<now, calls, objects, rows, cache, inflight, quota, deleted, bucket>>

\* ------------------------------------------------- the catch of uploadVideo
RollbackFilesNeeded_OffByOne(l) == l.contentId # Null /\ Len(l.uploadedFiles) > 1

\* if (contentId && uploadedFiles.length > 0)
RollbackFilesNeeded(l) == l.contentId # Null /\ Len(l.uploadedFiles) > 0

\* uploadedFiles.map(fileName => storageClient.deleteFile(...)): the
\* requests that Promise.all waits for
DeleteRequests(l) == SeqToSet(l.uploadedFiles)

\* entry of the catch block: every deleteFile request is issued at once
Rollback(p) ==
    /\ pc[p] = "rollback"
    /\ IF RollbackFilesNeeded(loc[p])
       THEN /\ inflight' = inflight \cup
                    {[call |-> loc[p].call, key |-> k] : k \in DeleteRequests(loc[p])}
            /\ loc' = [loc EXCEPT ![p].del =
                    {[key |-> k, state |-> "pending"] : k \in DeleteRequests(loc[p])}]
            /\ pc' = [pc EXCEPT ![p] = "awaitFiles"]
       ELSE /\ pc' = [pc EXCEPT ![p] = "rollbackRow"]
            /\ UNCHANGED <<inflight, loc>>
    /\ UNCHANGED <<now, calls, objects, rows, cache, tmp, quota, deleted, bucket>>

\* the storage answers one deleteFile request of a rollback
DeleteComplete(r, ok) ==
    /\ r \in inflight
    /\ inflight' = inflight \ {r}
    /\ objects' = IF ok THEN RemoveObject(objects, r.key) ELSE objects
    /\ loc' = [p \in Procs |->
                 IF loc[p].op = "upload" /\ loc[p].call = r.call
                 THEN [loc[p] EXCEPT !.del =
                        {d \in @ : d.key # r.key} \cup
                        {[key |-> r.key, state |-> IF ok THEN "ok" ELSE "failed"]}]
                 ELSE loc[p]]
    /\ UNCHANGED <<pc, now, calls, rows, cache, tmp, quota, deleted, bucket>>

\* Promise.all settles: fulfilled when every request succeeded, rejected as
\* soon as one request failed
FilesSettled(l) ==
    \/ \E d \in l.del : d.state = "failed"
    \/ \A d \in l.del : d.state = "ok"

FilesOutcome(l) ==
    IF \E d \in l.del : d.state = "failed" THEN "failed" ELSE "ok"

AfterFiles_Abort(l) ==
    IF \E d \in l.del : d.state = "failed" THEN "failed" ELSE "rollbackRow"

\* the rejection of Promise.all is caught and logged: the row is next
AfterFiles(l) == "rollbackRow"

AwaitFiles(p) ==
    /\ pc[p] = "awaitFiles"
    /\ FilesSettled(loc[p])
    /\ loc' = [loc EXCEPT ![p].comp = Append(@, <<"files", FilesOutcome(loc[p])>>)]
    /\ pc' = [pc EXCEPT ![p] = AfterFiles(loc[p])]
    /\ UNCHANGED <<now, calls, objects, rows, cache, tmp, inflight, quota, deleted, bucket>>

\* if (createdVideo) prisma.video.delete({ where: { id: contentId } })
RollbackRow(p, ok) ==
    /\ pc[p] = "rollbackRow"
    /\ pc' = [pc EXCEPT ![p] = "rollbackCache"]
    /\ IF loc[p].createdVideo # Null
       THEN IF ok /\ HasRow(rows, loc[p].contentId)
            THEN /\ rows' = DeleteRow(rows, loc[p].contentId)
                 /\ loc' = [loc EXCEPT ![p].comp = Append(@, <<"row", "ok">>)]
            ELSE /\ rows' = rows
                 /\ loc' = [loc EXCEPT ![p].comp = Append(@, <<"row", "failed">>)]
       ELSE UNCHANGED <<rows, loc>>
    /\ UNCHANGED <<now, calls, objects, cache, tmp, inflight, quota, deleted, bucket>>

ThrownError_RollbackError(l) ==
    IF \E i \in 1..Len(l.comp) : l.comp[i][2] = "failed"
    THEN [error |-> <<"Error uploading video", "rollback">>]
    ELSE [error |-> <<"Error uploading video", l.error>>]

\* throw new Error(`Error uploading video: ${error.message}`)
ThrownError(l) == [error |-> <<"Error uploading video", l.error>>]

\* if (redisKey) redisClient.del(redisKey), then the throw
RollbackCache(p, ok) ==
    /\ pc[p] = "rollbackCache"
    /\ pc' = [pc EXCEPT ![p] = "failed"]
    /\ IF loc[p].redisKey # Null
       THEN /\ cache' = IF ok THEN DelCache(cache, loc[p].redisKey) ELSE cache
            /\ loc' = [loc EXCEPT
                  ![p].comp = Append(@, <<"cache", IF ok THEN "ok" ELSE "failed">>),
                  ![p].result = ThrownError(loc[p])]
       ELSE /\ cache' = cache
            /\ loc' = [loc EXCEPT ![p].result = ThrownError(loc[p])]
    /\ UNCHANGED <<now, calls, objects, rows, tmp, inflight, quota, deleted, bucket>>

\* the caller has the result; the worker takes the next request
Finish(p) ==
    /\ pc[p] \in {"done", "failed"}
    /\ pc' = [pc EXCEPT ![p] = "idle"]
    /\ loc' = [loc EXCEPT ![p] = NoLocals]
    /\ UNCHANGED <<now, calls, objects, rows, cache, tmp, inflight, quota, deleted, bucket>>

\* ------------------------------------------------ VideoService.deleteVideo
\* the ids a request can name: those the service has handed out and that
\* left a trace in a store (any other id behaves as a deleted one)
AllIds ==
    {r.id : r \in rows} \cup {o.key[1] : o \in objects}
        \cup {e.key[2] : e \in cache} \cup deleted

StartDelete(p, id) ==
    /\ pc[p] = "idle"
    /\ pc' = [pc EXCEPT ![p] = "deleteFind"]
    /\ loc' = [loc EXCEPT ![p] = [NoLocals EXCEPT !.op = "delete", !.videoId = id]]
    /\ UNCHANGED <<now, calls, objects, rows, cache, tmp, inflight, quota, deleted, bucket>>

\* prisma.video.findUnique; if (!video) throw new Error('Video not found')
DeleteFind(p) ==
    /\ pc[p] = "deleteFind"
    /\ IF HasRow(rows, loc[p].videoId)
       THEN /\ loc' = [loc EXCEPT ![p].video = RowOf(rows, loc[p].videoId)]
            /\ pc' = [pc EXCEPT ![p] = "deleteFile"]
       ELSE /\ loc' = [loc EXCEPT ![p].error = "Video not found",
                                  ![p].result = [error |-> "Video not found"]]
            /\ pc' = [pc EXCEPT ![p] = "failed"]
    /\ UNCHANGED <<now, calls, objects, rows, cache, tmp, inflight, quota, deleted, bucket>>

DeleteFileSucceeds_NoSuchKey(objs, k, ok) == ok /\ HasObject(objs, k)

\* deleteFile resolves unless the request itself fails: DeleteObjectCommand
\* and removeObject do not reject for a key that is absent
DeleteFileSucceeds(objs, k, ok) == ok

DeleteFile_IgnoresFailure(p, ok) ==
    /\ pc[p] = "deleteFile"
    /\ objects' = IF DeleteFileSucceeds(objects, ExtractFilePath(loc[p].video.url), ok)
                  THEN RemoveObject(objects, ExtractFilePath(loc[p].video.url))
                  ELSE objects
    /\ pc' = [pc EXCEPT ![p] = "deleteRow"]
    /\ loc' = [loc EXCEPT ![p].failedStages = IF ok THEN @ ELSE @ \cup {"deleteFile"}]
    /\ UNCHANGED <<now, calls, rows, cache, tmp, inflight, quota, deleted, bucket>>

\* storageClient.deleteFile(bucketName, extractFilePath(video.url))
DeleteFile(p, ok) ==
    /\ pc[p] = "deleteFile"
    /\ IF DeleteFileSucceeds(objects, ExtractFilePath(loc[p].video.url), ok)
       THEN /\ objects' = RemoveObject(objects, ExtractFilePath(loc[p].video.url))
            /\ pc' = [pc EXCEPT ![p] = "deleteRow"]
            /\ loc' = loc
       ELSE /\ objects' = objects
            /\ pc' = [pc EXCEPT ![p] = "failed"]
            /\ loc' = [loc EXCEPT ![p].error = "deleteFile",
                                  ![p].result = [error |-> "deleteFile"],
                                  ![p].failedStages =
                                      IF ok THEN @ ELSE @ \cup {"deleteFile"}]
    /\ UNCHANGED <<now, calls, rows, cache, tmp, inflight, quota, deleted, bucket>>

\* prisma.video.delete({ where: { id: videoId } })
DeleteRecord(p, ok) ==
    /\ pc[p] = "deleteRow"
    /\ IF ok /\ HasRow(rows, loc[p].videoId)
       THEN /\ rows' = DeleteRow(rows, loc[p].videoId)
            /\ pc' = [pc EXCEPT ![p] = "done"]
            /\ loc' = [loc EXCEPT ![p].result = [deleted |-> loc[p].videoId]]
            /\ deleted' = deleted \cup {loc[p].videoId}
       ELSE /\ rows' = rows
            /\ pc' = [pc EXCEPT ![p] = "failed"]
            /\ loc' = [loc EXCEPT ![p].error = "prisma delete",
                                  ![p].result = [error |-> "prisma delete"],
                                  ![p].failedStages =
                                      IF ok THEN @ ELSE @ \cup {"deleteRow"}]
            /\ deleted' = deleted
    /\ UNCHANGED <<now, calls, objects, cache, tmp, inflight, quota, bucket>>

\* ------------------------------------------- router.delete('/:videoId')
\* findUnique, then prisma.video.delete of the row only; the 404, 403 and
\* 500 answers change nothing in the stores
RouteDelete(p, id, u, ok) ==
    /\ pc[p] = "idle"
    /\ HasRow(rows, id)
    /\ RowOf(rows, id).userId = u
    /\ ok
    /\ rows' = DeleteRow(rows, id)
    /\ UNCHANGED <<pc, loc, now, calls, objects, cache, tmp, inflight, quota, deleted, bucket>>

\* ------------------------------------- getVideoMetadata (cache-through)
StartGetMetadata(p, id) ==
    /\ pc[p] = "idle"
    /\ pc' = [pc EXCEPT ![p] = "metadataCache"]
    /\ loc' = [loc EXCEPT ![p] = [NoLocals EXCEPT !.op = "getMetadata", !.videoId = id]]
    /\ UNCHANGED <<now, calls, objects, rows, cache, tmp, inflight, quota, deleted, bucket>>

CachedValue(ch, k) == (CHOOSE e \in ch : e.key = k).value

\* the outer catch: throw new Error(`Error getting video metadata: ...`)
MetadataError(msg) == [error |-> <<"Error getting video metadata", msg>>]

\* a cached entry is served when it has a videoUrl and statObject finds the
\* file
CacheEntryValid(objs, m) ==
    /\ "videoUrl" \in DOMAIN m
    /\ m.videoUrl # Null
    /\ HasObject(objs, ExtractFilePath(m.videoUrl))

\* redisClient.get; a valid hit is returned, an invalid or stale one is
\* deleted from the cache and the database is asked; ok = redis answers
MetadataFromCache(p, ok) ==
    /\ pc[p] = "metadataCache"
    /\ LET k == RedisKey(loc[p].videoId) IN
       IF ~ok
       THEN /\ pc' = [pc EXCEPT ![p] = "failed"]
            /\ loc' = [loc EXCEPT ![p].error = "redis",
                                  ![p].result = MetadataError("redis"),
                                  ![p].failedStages = @ \cup {"redis"}]
            /\ cache' = cache
       ELSE IF ~HasCache(cache, k)
       THEN /\ pc' = [pc EXCEPT ![p] = "metadataDb"]
            /\ UNCHANGED <<loc, cache>>
       ELSE IF CacheEntryValid(objects, CachedValue(cache, k))
       THEN /\ pc' = [pc EXCEPT ![p] = "done"]
            /\ loc' = [loc EXCEPT ![p].result = CachedValue(cache, k),
                                  ![p].hit = TRUE]
            /\ cache' = cache
       ELSE /\ pc' = [pc EXCEPT ![p] = "metadataDb"]
            /\ loc' = [loc EXCEPT ![p].failedStages = @ \cup {"staleCache"}]
            /\ cache' = DelCache(cache, k)
    /\ UNCHANGED <<now, calls, objects, rows, tmp, inflight, quota, deleted, bucket>>

\* the metadata returned for a row whose file is missing in the store
BasicMetadata(row) ==
    [id |-> row.id, videoUrl |-> Null, thumbnailUrl |-> Null,
     userId |-> row.userId, duration |-> row.duration]

\* prisma.video.findFirst, statObject of the row's file, redisClient.set
MetadataFromDb(p, ok) ==
    /\ pc[p] = "metadataDb"
    /\ IF ~HasRow(rows, loc[p].videoId)
       THEN /\ pc' = [pc EXCEPT ![p] = "failed"]
            /\ loc' = [loc EXCEPT ![p].error = "Video not found",
                                  ![p].result = MetadataError("Video not found")]
            /\ cache' = cache
       ELSE LET video == RowOf(rows, loc[p].videoId) IN
            IF video.url = Null \/ ~HasObject(objects, ExtractFilePath(video.url))
            THEN /\ pc' = [pc EXCEPT ![p] = "done"]
                 /\ loc' = [loc EXCEPT ![p].result = BasicMetadata(video)]
                 /\ cache' = cache
            ELSE IF ok
            THEN /\ pc' = [pc EXCEPT ![p] = "done"]
                 /\ loc' = [loc EXCEPT ![p].result = VideoMetadata(video)]
                 /\ cache' = SetCache(cache, RedisKey(loc[p].videoId), VideoMetadata(video))
            ELSE /\ pc' = [pc EXCEPT ![p] = "failed"]
                 /\ loc' = [loc EXCEPT ![p].error = "redis",
                                       ![p].result = MetadataError("redis"),
                                       ![p].failedStages = @ \cup {"redis"}]
                 /\ cache' = cache
    /\ UNCHANGED <<now, calls, objects, rows, tmp, inflight, quota, deleted, bucket>>

\* an object is removed from the bucket without the service (out-of-band),
\* between two requests
OutOfBandDelete(k) ==
    /\ \A p \in Procs : pc[p] \in {"idle", "off"}
    /\ HasObject(objects, k)
    /\ objects' = RemoveObject(objects, k)
    /\ UNCHANGED <<pc, loc, now, calls, rows, cache, tmp, inflight, quota, deleted, bucket>>

\* --------------------- getVideoMetadata of videoService.js (row only)
StartGetMetadataRow(p, id) ==
    /\ pc[p] = "idle"
    /\ pc' = [pc EXCEPT ![p] = "metadataRow"]
    /\ loc' = [loc EXCEPT ![p] = [NoLocals EXCEPT !.op = "getMetadataRow", !.videoId = id]]
    /\ UNCHANGED <<now, calls, objects, rows, cache, tmp, inflight, quota, deleted, bucket>>

\* the object returned for a row: videoUrl is the row's url, thumbnailUrl
\* the row's key as stored
RowMetadata(row) ==
    [id |-> row.id, videoUrl |-> row.url, thumbnailUrl |-> row.thumbnailUrl,
     duration |-> row.duration, user |-> row.userId]

\* prisma.video.findUnique; if (!video) throw; return the metadata object
MetadataFromRow(p) ==
    /\ pc[p] = "metadataRow"
    /\ IF HasRow(rows, loc[p].videoId)
       THEN /\ pc' = [pc EXCEPT ![p] = "done"]
            /\ loc' = [loc EXCEPT ![p].result = RowMetadata(RowOf(rows, loc[p].videoId))]
       ELSE /\ pc' = [pc EXCEPT ![p] = "failed"]
            /\ loc' = [loc EXCEPT ![p].error = "Video not found",
                                  ![p].result = [error |-> "Video not found"]]
    /\ UNCHANGED <<now, calls, objects, rows, cache, tmp, inflight, quota, deleted, bucket>>

\* ------------------------------------------- VideoService.getVideoStream
StartGetStream(p, id) ==
    /\ pc[p] = "idle"
    /\ pc' = [pc EXCEPT ![p] = "streamMetadata"]
    /\ loc' = [loc EXCEPT ![p] = [NoLocals EXCEPT !.op = "getVideoStream", !.videoId = id]]
    /\ UNCHANGED <<now, calls, objects, rows, cache, tmp, inflight, quota, deleted, bucket>>

\* the catch: throw new Error(`Error getting video stream: ...`)
GetStreamError(msg) == [error |-> <<"Error getting video stream", msg>>]

\* this.getVideoMetadata(videoId) and the check of video.videoUrl
GetStreamMetadata(p) ==
    /\ pc[p] = "streamMetadata"
    /\ IF ~HasRow(rows, loc[p].videoId)
       THEN /\ pc' = [pc EXCEPT ![p] = "failed"]
            /\ loc' = [loc EXCEPT ![p].error = "Video not found",
                                  ![p].result = GetStreamError("Video not found")]
       ELSE /\ pc' = [pc EXCEPT ![p] = "streamFile"]
            /\ loc' = [loc EXCEPT ![p].video = RowMetadata(RowOf(rows, loc[p].videoId))]
    /\ UNCHANGED <<now, calls, objects, rows, cache, tmp, inflight, quota, deleted, bucket>>

\* storageClient.getFile(bucketName, extractFilePath(video.videoUrl))
GetStreamFile(p, ok) ==
    /\ pc[p] = "streamFile"
    /\ IF ok /\ HasObject(objects, ExtractFilePath(loc[p].video.videoUrl))
       THEN /\ pc' = [pc EXCEPT ![p] = "done"]
            /\ loc' = [loc EXCEPT ![p].result =
                          [stream |-> ExtractFilePath(loc[p].video.videoUrl)]]
       ELSE /\ pc' = [pc EXCEPT ![p] = "failed"]
            /\ loc' = [loc EXCEPT ![p].error = "getFile",
                                  ![p].result = GetStreamError("getFile"),
                                  ![p].failedStages = @ \cup {"getFile"}]
    /\ UNCHANGED <<now, calls, objects, rows, cache, tmp, inflight, quota, deleted, bucket>>

\* ---------------------------------------------- VideoService.streamVideo
StartStreamVideo(p, id) ==
    /\ pc[p] = "idle"
    /\ pc' = [pc EXCEPT ![p] = "streamCache"]
    /\ loc' = [loc EXCEPT ![p] = [NoLocals EXCEPT !.op = "streamVideo", !.videoId = id]]
    /\ UNCHANGED <<now, calls, objects, rows, cache, tmp, inflight, quota, deleted, bucket>>

\* the catch: throw new Error(`Error streaming video: ...`)
StreamError(msg) == [error |-> <<"Error streaming video", msg>>]

\* the row as findUnique returns it with its user, and as it is cached
StreamRow(row) ==
    [id |-> row.id, url |-> row.url, thumbnailUrl |-> row.thumbnailUrl,
     userId |-> row.userId, duration |-> row.duration, user |-> row.userId]

\* redisClient.get(`video:${videoId}`); a hit is returned as parsed
StreamFromCache(p, ok) ==
    /\ pc[p] = "streamCache"
    /\ LET k == RedisKey(loc[p].videoId) IN
       IF ~ok
       THEN /\ pc' = [pc EXCEPT ![p] = "failed"]
            /\ loc' = [loc EXCEPT ![p].error = "redis",
                                  ![p].result = StreamError("redis"),
                                  ![p].failedStages = @ \cup {"redis"}]
       ELSE IF HasCache(cache, k)
       THEN /\ pc' = [pc EXCEPT ![p] = "done"]
            /\ loc' = [loc EXCEPT ![p].result = CachedValue(cache, k),
                                  ![p].hit = TRUE]
       ELSE /\ pc' = [pc EXCEPT ![p] = "streamDb"]
            /\ loc' = loc
    /\ UNCHANGED <<now, calls, objects, rows, cache, tmp, inflight, quota, deleted, bucket>>

\* findUnique, getFile of the row's file, redisClient.set of the row,
\* return { video, stream }
StreamFromDb(p, ok) ==
    /\ pc[p] = "streamDb"
    /\ IF ~HasRow(rows, loc[p].videoId)
       THEN /\ pc' = [pc EXCEPT ![p] = "failed"]
            /\ loc' = [loc EXCEPT ![p].error = "Video not found",
                                  ![p].result = StreamError("Video not found")]
            /\ cache' = cache
       ELSE LET video == RowOf(rows, loc[p].videoId) IN
            IF ~HasObject(objects, ExtractFilePath(video.url))
            THEN /\ pc' = [pc EXCEPT ![p] = "failed"]
                 /\ loc' = [loc EXCEPT ![p].error = "getFile",
                                       ![p].result = StreamError("getFile"),
                                       ![p].failedStages = @ \cup {"getFile"}]
                 /\ cache' = cache
            ELSE IF ok
            THEN /\ pc' = [pc EXCEPT ![p] = "done"]
                 /\ loc' = [loc EXCEPT ![p].result =
                               [video |-> StreamRow(video),
                                stream |-> ExtractFilePath(video.url)]]
                 /\ cache' = SetCache(cache, RedisKey(loc[p].videoId), StreamRow(video))
            ELSE /\ pc' = [pc EXCEPT ![p] = "failed"]
                 /\ loc' = [loc EXCEPT ![p].error = "redis",
                                       ![p].result = StreamError("redis"),
                                       ![p].failedStages = @ \cup {"redis"}]
                 /\ cache' = cache
    /\ UNCHANGED <<now, calls, objects, rows, tmp, inflight, quota, deleted, bucket>>

\* a cache entry expires (it is written with EX) or is evicted, between two
\* requests
Evict(k) ==
    /\ \A p \in Procs : pc[p] \in {"idle", "off"}
    /\ HasCache(cache, k)
    /\ cache' = DelCache(cache, k)
    /\ UNCHANGED <<pc, loc, now, calls, objects, rows, tmp, inflight, quota, deleted, bucket>>

\* ------------------------------------------------------------------ Next
Next ==
    \/ \E p \in Procs, f \in {"data", "empty", "missing"} :
            StartUpload(p, Uploader, f)
    \/ \E p \in Procs, ok \in BOOLEAN : Initialize(p, ok)
    \/ \E p \in Procs : Validate(p)
    \/ \E p \in Procs, ok \in BOOLEAN, d \in Durations : Probe(p, ok, d)
    \/ \E p \in Procs, o \in {"ok", "empty", "error"} : Trim(p, o)
    \/ \E p \in Procs, ok \in BOOLEAN : Thumbnail(p, ok)
    \/ \E p \in Procs, ok \in BOOLEAN : ThumbnailUpload(p, ok)
    \/ \E p \in Procs, ok \in BOOLEAN : Upload(p, ok)
    \/ \E p \in Procs, ok \in BOOLEAN : Create(p, ok)
    \/ \E p \in Procs, ok \in BOOLEAN : CacheSet(p, ok)
    \/ \E p \in Procs : CleanupAndReturn(p)
    \/ \E p \in Procs : Rollback(p)
    \/ \E r \in inflight, ok \in BOOLEAN : DeleteComplete(r, ok)
    \/ \E p \in Procs : AwaitFiles(p)
    \/ \E p \in Procs, ok \in BOOLEAN : RollbackRow(p, ok)
    \/ \E p \in Procs, ok \in BOOLEAN : RollbackCache(p, ok)
    \/ \E p \in Procs : Finish(p)
    \/ \E p \in Procs, id \in AllIds : StartDelete(p, id)
    \/ \E p \in Procs : DeleteFind(p)
    \/ \E p \in Procs, ok \in BOOLEAN : DeleteFile(p, ok)
    \/ \E p \in Procs, ok \in BOOLEAN : DeleteRecord(p, ok)
    \/ \E p \in Procs, id \in AllIds, u \in Users, ok \in BOOLEAN :
            RouteDelete(p, id, u, ok)
    \/ \E p \in Procs, id \in AllIds : StartGetMetadata(p, id)
    \/ \E p \in Procs, ok \in BOOLEAN : MetadataFromCache(p, ok)
    \/ \E p \in Procs, ok \in BOOLEAN : MetadataFromDb(p, ok)
    \/ \E o \in objects : OutOfBandDelete(o.key)

Spec == Init /\ [][Next]_vars

\* ================================================================ claims
IsUpload(p) == loc[p].op = "upload"
UploadReturned(p) == IsUpload(p) /\ pc[p] = "done"
UploadFailed(p) == IsUpload(p) /\ pc[p] = "failed"
MediaUploaded(l) == l.finalFileName \in SeqToSet(l.uploadedFiles)
ThumbnailUploaded(l) == l.thumbnailName \in SeqToSet(l.uploadedFiles)
FatalFailures(l) == l.failedStages \ {"thumbnail"}
CompOutcome(l, what, outcome) ==
    \E i \in 1..Len(l.comp) : l.comp[i] = <<what, outcome>>
CompAttempted(l, what) ==
    \E i \in 1..Len(l.comp) : l.comp[i][1] = what
DeletionsSucceeded(l) ==
    ~CompOutcome(l, "files", "failed") /\ ~CompOutcome(l, "row", "failed")
NoCallRunning == \A p \in Procs : pc[p] \in {"off", "idle", "done", "failed"}
IsThumbnailKey(k) == k = ThumbnailName(k[1])

C2_RowHasObject ==
    NoCallRunning =>
        \A r \in rows : HasObject(objects, ExtractFilePath(r.url))

\* C3: after completed ingest and delete operations, a media object exists
\* only if a row with its id exists (no orphaned media object).
C3_NoOrphanMedia ==
    NoCallRunning =>
        \A o \in objects : ~IsThumbnailKey(o.key) => HasRow(rows, o.key[1])

\* C4: for a probed duration d in whole seconds the row persisted by a
\* successful uploadVideo has duration min(d, 30), never more than 30.
C4_DurationClamp ==
    \A p \in Procs :
        UploadReturned(p) /\ loc[p].duration % 10 = 0 =>
            \E r \in rows :
                /\ r.id = loc[p].contentId
                /\ r.duration = Min(loc[p].duration \div 10, 30)
                /\ r.duration <= 30

C4_Witness ==
    \E p \in Procs :
        /\ UploadReturned(p) /\ loc[p].duration = 450
        /\ \E r \in rows : r.id = loc[p].contentId /\ r.duration = 30

\* C5: when only the preview stage fails, uploadVideo returns successfully:
\* the media object is stored, the row is persisted and no compensating
\* action runs.
C5_PreviewFailureNotFatal ==
    \A p \in Procs :
        /\ IsUpload(p) /\ pc[p] \in {"rollback", "awaitFiles", "rollbackRow",
                                     "rollbackCache", "done", "failed"}
        /\ loc[p].failedStages = {"thumbnail"}
        => /\ pc[p] = "done"
           /\ HasObject(objects, loc[p].finalFileName)
           /\ HasRow(rows, loc[p].contentId)
           /\ loc[p].comp = <<>> /\ loc[p].del = {}

C5_Witness ==
    \E p \in Procs :
        /\ UploadReturned(p) /\ loc[p].failedStages = {"thumbnail"}
        /\ HasObject(objects, loc[p].finalFileName)
        /\ HasRow(rows, loc[p].contentId)

\* C6: when the preview stage fails in an otherwise successful ingest, the
\* row's thumbnailUrl and the returned preview URL are null; a row's
\* thumbnailUrl is non-null only if the preview object was uploaded.
C6_PreviewKeyNullWhenFailed ==
    \A p \in Procs :
        UploadReturned(p) =>
            /\ "thumbnail" \in loc[p].failedStages =>
                  /\ loc[p].createdVideo.thumbnailUrl = Null
                  /\ loc[p].result.thumbnailUrl = Null
            /\ loc[p].createdVideo.thumbnailUrl # Null => ThumbnailUploaded(loc[p])

\* C7: when the cache write fails after the row was created, uploadVideo
\* still returns the metadata: row and objects stay, no compensation runs.
C7_CacheFailureNotFatal ==
    \A p \in Procs :
        /\ IsUpload(p) /\ pc[p] \in {"rollback", "awaitFiles", "rollbackRow",
                                     "rollbackCache", "done", "failed"}
        /\ FatalFailures(loc[p]) = {"cache"}
        => /\ pc[p] = "done"
           /\ HasRow(rows, loc[p].contentId)
           /\ HasObject(objects, loc[p].finalFileName)
           /\ loc[p].comp = <<>> /\ loc[p].del = {}

\* C8: on every exit path of uploadVideo every temporary file of the ingest
\* (spooled upload, trimmed output, extracted frame) has been removed.
C8_TempFilesRemoved ==
    \A p \in Procs :
        IsUpload(p) /\ pc[p] \in {"done", "failed"} =>
            /\ ~FileExists(tmp, loc[p].filePath)
            /\ loc[p].contentId # Null =>
                  /\ ~FileExists(tmp, OutputPath(loc[p].timestamp))
                  /\ ~FileExists(tmp, ThumbnailPath(loc[p].timestamp))

\* C9: the error uploadVideo raises carries the cause of the stage that
\* triggered the abort, whether or not a compensating action failed too.
C9_OriginalErrorSurfaced ==
    \A p \in Procs :
        UploadFailed(p) =>
            \E s \in FatalFailures(loc[p]) :
                /\ FatalFailures(loc[p]) = {s}
                /\ loc[p].result = [error |-> <<"Error uploading video", StageError(s)>>]

C9_Witness ==
    \E p \in Procs :
        /\ UploadFailed(p)
        /\ CompOutcome(loc[p], "files", "failed")
        /\ CompOutcome(loc[p], "row", "failed")
        /\ CompOutcome(loc[p], "cache", "failed")
        /\ loc[p].result = [error |-> <<"Error uploading video", StageError("cache")>>]

\* C10: in the rollback every compensating action is attempted whatever the
\* outcome of the others: the deletion of each uploaded object, the row
\* deletion when a row was created, the cache invalidation.
C10_CompensationsIndependent ==
    \A p \in Procs :
        UploadFailed(p) =>
            /\ \A k \in SeqToSet(loc[p].uploadedFiles) :
                    \E d \in loc[p].del : d.key = k
            /\ loc[p].uploadedFiles # <<>> => CompAttempted(loc[p], "files")
            /\ loc[p].createdVideo # Null => CompAttempted(loc[p], "row")
            /\ loc[p].redisKey # Null => CompAttempted(loc[p], "cache")

C10_Witness ==
    \E p \in Procs :
        /\ UploadFailed(p)
        /\ Len(loc[p].uploadedFiles) = 2
        /\ \E d \in loc[p].del : d.state = "failed"
        /\ \E d \in loc[p].del : d.state = "ok"
        /\ CompOutcome(loc[p], "files", "failed")
        /\ CompOutcome(loc[p], "row", "failed")
        /\ CompAttempted(loc[p], "cache")

IsDelete(p) == loc[p].op = "delete"
IsGetMetadata(p) == loc[p].op = "getMetadata"
NotFound == [error |-> "Video not found"]

\* C11: deleting a video id again after a successful delete yields NotFound,
\* and a delete whose store requests are all answered ends in success or
\* NotFound: never in a storage error for an object that is already absent.
C11_IdempotentDelete ==
    [][/\ \A p \in Procs :
            pc[p] = "deleteFind" /\ loc[p].videoId \in deleted =>
                \/ pc'[p] = "deleteFind"
                \/ pc'[p] = "failed" /\ loc'[p].result = NotFound
       /\ \A p \in Procs :
            (IsDelete(p) /\ pc[p] \in {"done", "failed"}
                /\ loc[p].failedStages = {})' =>
                (\/ pc[p] = "done" /\ ~HasRow(rows, loc[p].videoId)
                    /\ ~HasObject(objects, ExtractFilePath(loc[p].video.url))
                 \/ pc[p] = "failed" /\ loc[p].result = NotFound)'
      ]_vars

C11_Witness ==
    \E p \in Procs :
        /\ IsDelete(p) /\ pc[p] = "failed"
        /\ loc[p].videoId \in deleted
        /\ loc[p].result = NotFound

\* C12: getVideoMetadata(id) on a cached entry whose object is gone from the
\* object store invalidates the entry and then raises NotFound; it returns
\* no metadata.
C12_StaleCacheIsNotFound ==
    \A p \in Procs :
        /\ IsGetMetadata(p) /\ pc[p] \in {"done", "failed"}
        /\ "staleCache" \in loc[p].failedStages
        /\ "redis" \notin loc[p].failedStages
        => /\ ~HasCache(cache, RedisKey(loc[p].videoId))
           /\ pc[p] = "failed"
           /\ loc[p].result = MetadataError("Video not found")

InCatch(p) == pc[p] \in {"rollback", "awaitFiles", "rollbackRow", "rollbackCache", "failed"}
ObjectsOf(c) == {o.key : o \in {x \in objects : x.by = c}}
ProbeSucceeded(l) == l.finalFileName # Null
TrimInvoked(p) ==
    \/ pc[p] = "trim"
    \/ loc[p].finalVideoPath = OutputPath(loc[p].timestamp)
    \/ "trim" \in loc[p].failedStages

\* C13: when the probe fails, or the trim fails, uploadVideo aborts with an
\* error and at no point of the call is an object uploaded or a row inserted.
C13_ProbeAndTrimFatal ==
    \A p \in Procs :
        IsUpload(p) /\ loc[p].failedStages \cap {"probe", "trim"} # {} =>
            /\ InCatch(p)
            /\ loc[p].uploadedFiles = <<>> /\ loc[p].createdVideo = Null
            /\ ObjectsOf(loc[p].call) = {}
            /\ ~\E r \in rows : r.by = loc[p].call
            /\ pc[p] = "failed" =>
                  \E s \in {"probe", "trim"} :
                      loc[p].result = [error |-> <<"Error uploading video", StageError(s)>>]

C13_Witness ==
    \E p \in Procs :
        /\ UploadFailed(p) /\ "trim" \in loc[p].failedStages
        /\ loc[p].duration = 450
        /\ ObjectsOf(loc[p].call) = {}

\* C14: an empty or unreadable spooled file fails the call before any side
\* effect and without compensation: no transcoding, no object put or delete,
\* no row write and no cache operation.
C14_InvalidFileNoSideEffect ==
    \A p \in Procs :
        UploadFailed(p) /\ "validate" \in loc[p].failedStages =>
            /\ ~ProbeSucceeded(loc[p]) /\ loc[p].failedStages = {"validate"}
            /\ loc[p].uploadedFiles = <<>> /\ loc[p].createdVideo = Null
            /\ loc[p].del = {}
            /\ loc[p].comp = <<>>

\* C15 (as stated): the trim stage is invoked iff the probed duration
\* exceeds 30 s; at or below it the original file is the upload source and
\* the persisted duration equals the probed duration.
C15_TrimIffOverMax ==
    \A p \in Procs :
        IsUpload(p) /\ ProbeSucceeded(loc[p]) =>
            /\ TrimInvoked(p) <=> loc[p].duration > 300
            /\ pc[p] = "done" /\ loc[p].duration <= 300 =>
                  /\ loc[p].finalVideoPath = loc[p].filePath
                  /\ MediaUploaded(loc[p]) /\ loc[p].finalFileName = FileName(loc[p].contentId)
                  /\ loc[p].createdVideo.duration * 10 = loc[p].duration

\* C15 (amended): as above, the persisted duration being the probed
\* duration rounded to the nearest whole second.
C15_TrimIffOverMaxRounded ==
    \A p \in Procs :
        IsUpload(p) /\ ProbeSucceeded(loc[p]) =>
            /\ TrimInvoked(p) <=> loc[p].duration > 300
            /\ pc[p] = "done" /\ loc[p].duration <= 300 =>
                  /\ loc[p].finalVideoPath = loc[p].filePath
                  /\ MediaUploaded(loc[p]) /\ loc[p].finalFileName = FileName(loc[p].contentId)
                  /\ \E r \in rows :
                        /\ r.id = loc[p].contentId
                        /\ r.duration * 10 - 5 <= loc[p].duration
                        /\ loc[p].duration < r.duration * 10 + 5

C15_Witness ==
    \E p \in Procs :
        /\ UploadReturned(p) /\ loc[p].duration = 296
        /\ loc[p].finalVideoPath = loc[p].filePath
        /\ \E r \in rows : r.id = loc[p].contentId /\ r.duration = 30

\* C16: after a successful ingest of an over-length file whose preview
\* succeeds the object store holds exactly two new keys, both under the id
\* prefix: the trimmed media (not the original) and the preview; the row has
\* duration 30 and a non-null preview key.
C16_TwoKeysAfterTrim ==
    \A p \in Procs :
        /\ UploadReturned(p) /\ loc[p].duration > 300
        /\ "thumbnail" \notin loc[p].failedStages
        => /\ ObjectsOf(loc[p].call) =
                {TrimmedFileName(loc[p].contentId), ThumbnailName(loc[p].contentId)}
           /\ {o.key : o \in {x \in objects : x.key[1] = loc[p].contentId}}
                = ObjectsOf(loc[p].call)
           /\ Cardinality(ObjectsOf(loc[p].call)) = 2
           /\ loc[p].finalVideoPath = OutputPath(loc[p].timestamp)
           /\ \E r \in rows :
                 /\ r.id = loc[p].contentId /\ r.duration = 30
                 /\ r.thumbnailUrl = ThumbnailName(loc[p].contentId)
                 /\ ExtractFilePath(r.url) = TrimmedFileName(loc[p].contentId)

C16_Witness ==
    \E p \in Procs :
        /\ UploadReturned(p) /\ loc[p].duration = 450
        /\ ThumbnailUploaded(loc[p])
        /\ Cardinality(ObjectsOf(loc[p].call)) = 2

\* ------------------------------------------------------- the read paths
\* Requests are served one at a time; ingests run without faults, and
\* between requests an object may be removed out-of-band and a cache entry
\* may expire.
NextRead ==
    \/ \E p \in Procs : StartUpload(p, Uploader, "data")
    \/ \E p \in Procs : Initialize(p, TRUE)
    \/ \E p \in Procs : Validate(p)
    \/ \E p \in Procs : Probe(p, TRUE, 100)
    \/ \E p \in Procs : Thumbnail(p, TRUE)
    \/ \E p \in Procs : ThumbnailUpload(p, TRUE)
    \/ \E p \in Procs : Upload(p, TRUE)
    \/ \E p \in Procs : Create(p, TRUE)
    \/ \E p \in Procs : CacheSet(p, TRUE)
    \/ \E p \in Procs : CleanupAndReturn(p)
    \/ \E p \in Procs : Finish(p)
    \/ \E p \in Procs, id \in AllIds : StartDelete(p, id)
    \/ \E p \in Procs : DeleteFind(p)
    \/ \E p \in Procs : DeleteFile(p, TRUE)
    \/ \E p \in Procs : DeleteRecord(p, TRUE)
    \/ \E p \in Procs, id \in AllIds : StartGetMetadata(p, id)
    \/ \E p \in Procs : MetadataFromCache(p, TRUE)
    \/ \E p \in Procs : MetadataFromDb(p, TRUE)
    \/ \E p \in Procs, id \in AllIds : StartGetMetadataRow(p, id)
    \/ \E p \in Procs : MetadataFromRow(p)
    \/ \E p \in Procs, id \in AllIds : StartGetStream(p, id)
    \/ \E p \in Procs : GetStreamMetadata(p)
    \/ \E p \in Procs, ok \in BOOLEAN : GetStreamFile(p, ok)
    \/ \E p \in Procs, id \in AllIds : StartStreamVideo(p, id)
    \/ \E p \in Procs, ok \in BOOLEAN : StreamFromCache(p, ok)
    \/ \E p \in Procs, ok \in BOOLEAN : StreamFromDb(p, ok)
    \/ \E o \in objects : OutOfBandDelete(o.key)
    \/ \E e \in cache : Evict(e.key)

SpecRead == Init /\ [][NextRead]_vars

\* --------------------------- initialize / ensureBucketExists in detail
\* new VideoService(): the constructor calls this.initialize() and does not
\* await it, so it runs beside the first requests
StartConstruct(p) ==
    /\ pc[p] = "idle"
    /\ \A q \in Procs : loc[q].op # "construct"
    /\ calls = 0
    /\ pc' = [pc EXCEPT ![p] = "init"]
    /\ loc' = [loc EXCEPT ![p] = [NoLocals EXCEPT !.op = "construct"]]
    /\ UNCHANGED <<now, calls, objects, rows, cache, tmp, inflight, quota, deleted, bucket>>

\* const exists = await this.client.bucketExists(bucketName)
BucketExists(p) ==
    /\ pc[p] = "init"
    /\ pc' = [pc EXCEPT ![p] = IF bucket.exists THEN "connect" ELSE "makeBucket"]
    /\ UNCHANGED <<loc, now, calls, objects, rows, cache, tmp, inflight, quota, deleted, bucket>>

\* await this.client.makeBucket(bucketName): the store rejects the creation
\* of a bucket that exists (BucketAlreadyOwnedByYou); the error is rethrown
\* by ensureBucketExists, ensureBucket and initialize
MakeBucket(p) ==
    /\ pc[p] = "makeBucket"
    /\ IF bucket.exists
       THEN /\ bucket' = bucket
            /\ IF loc[p].op = "construct"
               THEN /\ pc' = [pc EXCEPT ![p] = "failed"]
                    /\ loc' = [loc EXCEPT ![p].error = "initialize",
                                          ![p].failedStages = @ \cup {"initialize"}]
               ELSE Catch(p, "initialize")
       ELSE /\ bucket' = [exists |-> TRUE, made |-> bucket.made + 1]
            /\ pc' = [pc EXCEPT ![p] = "connect"]
            /\ loc' = loc
    /\ UNCHANGED <<now, calls, objects, rows, cache, tmp, inflight, quota, deleted>>

\* connectRedis, the end of initialize; uploadVideo goes on with timestamp,
\* contentId and redisKey
ConnectRedis(p) ==
    /\ pc[p] = "connect"
    /\ IF loc[p].op = "construct"
       THEN /\ pc' = [pc EXCEPT ![p] = "done"]
            /\ loc' = loc
       ELSE /\ pc' = [pc EXCEPT ![p] = "validate"]
            /\ loc' = [loc EXCEPT ![p].timestamp = now,
                                  ![p].contentId = ContentId(loc[p].userId, now),
                                  ![p].redisKey = RedisKey(ContentId(loc[p].userId, now))]
    /\ UNCHANGED <<now, calls, objects, rows, cache, tmp, inflight, quota, deleted, bucket>>

\* The service starts against a store whose container does not exist yet:
\* the constructor's initialize and the first two uploadVideo calls run
\* side by side; the stores do not fail otherwise.
InitBucket ==
    /\ pc = [p \in Procs |-> "idle"]
    /\ loc = [p \in Procs |-> NoLocals]
    /\ now = 0
    /\ calls = 0
    /\ objects = {}
    /\ rows = {}
    /\ cache = {}
    /\ tmp = {}
    /\ inflight = {}
    /\ quota = Cardinality(Procs)
    /\ deleted = {}
    /\ bucket = [exists |-> FALSE, made |-> 0]

NextBucket ==
    \/ \E p \in Procs : StartConstruct(p)
    \/ \E p \in Procs, u \in Users : StartUpload(p, u, "data")
    \/ \E p \in Procs : BucketExists(p)
    \/ \E p \in Procs : MakeBucket(p)
    \/ \E p \in Procs : ConnectRedis(p)
    \/ \E p \in Procs : Validate(p)
    \/ \E p \in Procs : Probe(p, TRUE, 100)
    \/ \E p \in Procs : Thumbnail(p, TRUE)
    \/ \E p \in Procs : ThumbnailUpload(p, TRUE)
    \/ \E p \in Procs : Upload(p, TRUE)
    \/ \E p \in Procs : Create(p, TRUE)
    \/ \E p \in Procs : CacheSet(p, TRUE)
    \/ \E p \in Procs : CleanupAndReturn(p)
    \/ \E p \in Procs : Rollback(p)
    \/ \E r \in inflight : DeleteComplete(r, TRUE)
    \/ \E p \in Procs : AwaitFiles(p)
    \/ \E p \in Procs : RollbackRow(p, TRUE)
    \/ \E p \in Procs : RollbackCache(p, TRUE)

SpecBucket == InitBucket /\ [][NextBucket]_vars

\* ------------------------------------------------ two concurrent ingests
\* Two requests are served at once: both handlers are idle at the start and
\* each runs one uploadVideo, for any pair of owners; the stores do not fail.
InitConc ==
    /\ pc = [p \in Procs |-> "idle"]
    /\ loc = [p \in Procs |-> NoLocals]
    /\ now = 0
    /\ calls = 0
    /\ objects = {}
    /\ rows = {}
    /\ cache = {}
    /\ tmp = {}
    /\ inflight = {}
    /\ quota = Cardinality(Procs)
    /\ deleted = {}
    /\ bucket = [exists |-> TRUE, made |-> 0]

NextConc ==
    \/ \E p \in Procs, u \in Users : StartUpload(p, u, "data")
    \/ \E p \in Procs : Initialize(p, TRUE)
    \/ \E p \in Procs : Validate(p)
    \/ \E p \in Procs, d \in {100, 450} : Probe(p, TRUE, d)
    \/ \E p \in Procs : Trim(p, "ok")
    \/ \E p \in Procs : Thumbnail(p, TRUE)
    \/ \E p \in Procs : ThumbnailUpload(p, TRUE)
    \/ \E p \in Procs : Upload(p, TRUE)
    \/ \E p \in Procs : Create(p, TRUE)
    \/ \E p \in Procs : CacheSet(p, TRUE)
    \/ \E p \in Procs : CleanupAndReturn(p)
    \/ \E p \in Procs : Rollback(p)
    \/ \E r \in inflight : DeleteComplete(r, TRUE)
    \/ \E p \in Procs : AwaitFiles(p)
    \/ \E p \in Procs : RollbackRow(p, TRUE)
    \/ \E p \in Procs : RollbackCache(p, TRUE)

SpecConc == InitConc /\ [][NextConc]_vars

\* the ingest of p is between its initialisation and its return
Running(p) == IsUpload(p) /\ pc[p] \notin {"init", "done", "failed"}

\* C17: when two ingests derive the same id (same owner, same millisecond)
\* nothing is silently overwritten: an object stored under a key is never
\* replaced by a later ingest.
C17_NoSilentOverwrite ==
    [][\A o \in objects : \A o2 \in objects' :
            o.key = o2.key => o.by = o2.by]_vars

\* C18: two concurrent ingests of different owners are independent: a step
\* of one never removes the trimmed output or the extracted frame the other
\* is still working with.
C18_IngestsIndependent ==
    [][\A p \in Procs : \A q \in Procs \ {p} :
            /\ Running(p) /\ IsUpload(q)
            /\ loc[p].userId # loc[q].userId
            /\ pc'[q] # pc[q]
            => /\ /\ loc[p].finalVideoPath = OutputPath(loc[p].timestamp)
                  /\ FileExists(tmp, OutputPath(loc[p].timestamp))
                  => FileExists(tmp', OutputPath(loc[p].timestamp))
               /\ /\ pc[p] = "thumbnailUpload"
                  /\ FileExists(tmp, ThumbnailPath(loc[p].timestamp))
                  => FileExists(tmp', ThumbnailPath(loc[p].timestamp))
      ]_vars

\* C19: uploadVideo returns a metadata object only when every fatal stage
\* has completed: at the return the media object is stored, the row exists
\* and the returned id, owner, duration, media URL and preview URL agree with
\* the row; in every other case the call ends with a single error and no
\* metadata.
C19_CompleteOrError ==
    \A p \in Procs : IsUpload(p) =>
        /\ pc[p] = "done" =>
              /\ FatalFailures(loc[p]) = {}
              /\ MediaUploaded(loc[p])
              /\ HasObject(objects, loc[p].finalFileName)
              /\ \E r \in rows :
                    /\ r.id = loc[p].contentId
                    /\ loc[p].result.id = r.id
                    /\ loc[p].result.userId = r.userId
                    /\ loc[p].result.duration = r.duration
                    /\ loc[p].result.videoUrl = r.url
                    /\ loc[p].result.thumbnailUrl = GetFullUrl(r.thumbnailUrl)
                    /\ HasObject(objects, ExtractFilePath(loc[p].result.videoUrl))
        /\ pc[p] # "done" => "id" \notin DOMAIN loc[p].result
        /\ pc[p] = "failed" =>
              /\ DOMAIN loc[p].result = {"error"}
              /\ loc[p].failedStages # {}

C19_Witness ==
    \E p \in Procs :
        /\ UploadReturned(p) /\ loc[p].duration = 450
        /\ loc[p].result.duration = 30
        /\ loc[p].result.videoUrl = GetFullUrl(TrimmedFileName(loc[p].contentId))

\* C20: the media upload is the first external side effect of an ingest: no
\* preview object is uploaded and no row inserted before the media object
\* has been uploaded, and a failed media upload leaves no object to
\* compensate.
C20_MediaUploadFirst ==
    \A p \in Procs : IsUpload(p) =>
        /\ ThumbnailUploaded(loc[p]) => MediaUploaded(loc[p])
        /\ loc[p].createdVideo # Null => MediaUploaded(loc[p])
        /\ "upload" \in loc[p].failedStages =>
              loc[p].uploadedFiles = <<>> /\ loc[p].del = {}

\* the call wrote its cache entry: the row exists and the cache write, the
\* stage after it, did not fail
CacheWritten(l) == l.createdVideo # Null /\ "cache" \notin l.failedStages

\* C21: on abort the compensations are attempted in this order: deletion of
\* the uploaded objects (media, then preview), then deletion of the row only
\* if it was created, then invalidation of the cache entry only if it was
\* set.
C21_CompensationOrder ==
    \A p \in Procs : UploadFailed(p) =>
        /\ \A i \in 1..Len(loc[p].comp) : \A j \in 1..Len(loc[p].comp) :
              /\ loc[p].comp[i][1] = "files" /\ loc[p].comp[j][1] \in {"row", "cache"} => i < j
              /\ loc[p].comp[i][1] = "row" /\ loc[p].comp[j][1] = "cache" => i < j
        /\ Len(loc[p].uploadedFiles) = 2 =>
              loc[p].uploadedFiles[1] = loc[p].finalFileName
        /\ CompAttempted(loc[p], "row") <=> loc[p].createdVideo # Null
        /\ CompAttempted(loc[p], "cache") <=> CacheWritten(loc[p])

\* C22: deleteVideo issues the row deletion only after the object deletion
\* has succeeded; when the object deletion fails the row is left in place
\* and the error is returned.
C22_ObjectBeforeRow ==
    [][\A p \in Procs : IsDelete(p) =>
          /\ pc'[p] # pc[p] /\ rows' # rows =>
                /\ pc[p] = "deleteRow"
                /\ "deleteFile" \notin loc[p].failedStages
                /\ ~HasObject(objects, ExtractFilePath(loc[p].video.url))
          /\ pc[p] = "deleteFile" /\ pc'[p] = "failed" =>
                /\ rows' = rows /\ HasRow(rows', loc[p].videoId)
                /\ DOMAIN loc'[p].result = {"error"}
      ]_vars

C22_Witness ==
    \E p \in Procs :
        /\ IsDelete(p) /\ pc[p] = "failed"
        /\ "deleteFile" \in loc[p].failedStages
        /\ HasRow(rows, loc[p].videoId)
        /\ HasObject(objects, ExtractFilePath(loc[p].video.url))

\* C23: after a successful delete of a video id no object under the prefix
\* of that id (media or preview) and no row with that id remains.
C23_DeleteRemovesAllObjects ==
    \A p \in Procs :
        IsDelete(p) /\ pc[p] = "done" =>
            /\ ~HasRow(rows, loc[p].videoId)
            /\ ~\E o \in objects : o.key[1] = loc[p].videoId

\* C28: when uploadVideo rejects, every compensating object deletion it
\* started has finished: none is still in flight after the call returned.
C28_NoDeletionInFlight ==
    \A p \in Procs :
        UploadFailed(p) =>
            /\ ~\E r \in inflight : r.call = loc[p].call
            /\ \A d \in loc[p].del : d.state # "pending"

\* the object key a metadata object refers to
ReferencedKey(m) ==
    IF "videoUrl" \in DOMAIN m THEN ExtractFilePath(m.videoUrl)
    ELSE ExtractFilePath(m.url)
IsStreamVideo(p) == loc[p].op = "streamVideo"
IsGetMetadataRow(p) == loc[p].op = "getMetadataRow"
RowAndObjectExist(id) ==
    /\ HasRow(rows, id)
    /\ HasObject(objects, ExtractFilePath(RowOf(rows, id).url))

\* C24: no read path returns cached metadata for an id whose referenced
\* object key does not resolve in the object store: such a hit is
\* invalidated and the metadata refetched.
C24_NoStaleCacheHit ==
    \A p \in Procs :
        /\ IsGetMetadata(p) \/ IsStreamVideo(p)
        /\ pc[p] = "done" /\ loc[p].hit
        => HasObject(objects, ReferencedKey(loc[p].result))

\* C25: on a cache miss for an id whose row and object exist,
\* getVideoMetadata stores the metadata in the cache under that id and
\* returns it, so that a following read is a hit with the same metadata.
C25_MissRepopulatesCache ==
    \A p \in Procs :
        /\ IsGetMetadata(p) \/ IsGetMetadataRow(p)
        /\ pc[p] = "done" /\ RowAndObjectExist(loc[p].videoId)
        => /\ HasCache(cache, RedisKey(loc[p].videoId))
           /\ CachedValue(cache, RedisKey(loc[p].videoId)) = loc[p].result

\* C26: clearing the cache entry of an id does not change the result of a
\* read: for an id whose row and object exist streamVideo and
\* getVideoMetadata return on a hit what they return on a miss.
C26_HitEqualsMiss ==
    \A p \in Procs :
        pc[p] = "done" /\ RowAndObjectExist(loc[p].videoId) =>
            /\ IsGetMetadata(p) =>
                  loc[p].result = VideoMetadata(RowOf(rows, loc[p].videoId))
            /\ IsStreamVideo(p) =>
                  loc[p].result =
                      [video |-> StreamRow(RowOf(rows, loc[p].videoId)),
                       stream |-> ExtractFilePath(RowOf(rows, loc[p].videoId).url)]

\* C29: after deleteVideo(id) succeeds no cache entry for id remains, and a
\* later streamVideo(id) does not return the deleted video's metadata.
C29_DeleteInvalidatesCache ==
    \A p \in Procs :
        /\ IsDelete(p) /\ pc[p] = "done" =>
              ~HasCache(cache, RedisKey(loc[p].videoId))
        /\ IsStreamVideo(p) /\ pc[p] = "done" =>
              loc[p].videoId \notin deleted

\* C27: the rollback of a failed uploadVideo removes only what that call
\* created: an object it deletes was uploaded by that call, and it removes
\* no cache entry written by another call (a call that rolls back has not
\* written one: the cache write is its last fatal stage).
C27_RollbackOwnEffectsOnly ==
    [][/\ \A r \in inflight \ inflight' :
              \A o \in objects \ objects' : o.key = r.key => o.by = r.call
       /\ \A p \in Procs :
              IsUpload(p) /\ pc[p] = "rollbackCache" /\ pc'[p] = "failed" =>
                  cache' = cache
       /\ \A p \in Procs :
              IsUpload(p) /\ pc[p] = "rollbackRow" /\ pc'[p] = "rollbackCache" =>
                  \A x \in rows \ rows' : x.by = loc[p].call
      ]_vars

\* C30: under any interleaving of concurrent initialize calls against a
\* container that does not exist yet the container is created exactly once
\* and no caller fails because another caller created it between its
\* existence check and its create call.
C30_BucketCreatedOnce ==
    /\ bucket.made <= 1
    /\ (\A p \in Procs : pc[p] \in {"connect", "validate"}) => bucket.made = 1
    /\ \A p \in Procs : "initialize" \notin loc[p].failedStages

====
